---- MODULE Spec2Model ----
(***************************************************************************)
(* A model of the Telegram hook for logrus (telegramhook.go).              *)
(*                                                                         *)
(* Go strings are modelled as sequences of one-character strings, so that  *)
(* formatting, escaping and joining are computed character by character.   *)
(***************************************************************************)
EXTENDS Integers, Sequences, FiniteSets, Bags, TLC

\* ------------------------------------------------------------------------
\* Strings
\* ------------------------------------------------------------------------

RECURSIVE Flatten(_)
\* The concatenation of a sequence of strings.
Flatten(ss) == IF ss = <<>> THEN <<>> ELSE Head(ss) \o Flatten(Tail(ss))

\* strings.Join([]string{a, b}, sep)
Join2(a, b, sep) == a \o sep \o b

Digit(d) == <<"0", "1", "2", "3", "4", "5", "6", "7", "8", "9">>[d + 1]

RECURSIVE Itoa(_)
\* The decimal rendering of an integer (%d, and %+v of an int value).
Itoa(n) ==
    IF n < 0 THEN <<"-">> \o Itoa(0 - n)
    ELSE IF n < 10 THEN <<Digit(n)>>
    ELSE Itoa(n \div 10) \o <<Digit(n % 10)>>

\* s[i..] begins with p.
HasPrefixAt(s, p, i) ==
    /\ i + Len(p) - 1 <= Len(s)
    /\ \A k \in 1..Len(p) : s[i + k - 1] = p[k]

\* strings.HasPrefix and strings.Contains
HasPrefix(s, p) == HasPrefixAt(s, p, 1)
Contains(s, sub) == \E i \in 1..(Len(s) + 1) : HasPrefixAt(s, sub, i)

\* s up to its first line break.
FirstLine(s) ==
    IF \E i \in 1..Len(s) : s[i] = "\n"
    THEN SubSeq(s, 1, (CHOOSE i \in 1..Len(s) :
                          s[i] = "\n" /\ \A k \in 1..(i - 1) : s[k] # "\n") - 1)
    ELSE s

\* The index of the first line break of s (0 if none).
LineBreak(s) ==
    IF \E i \in 1..Len(s) : s[i] = "\n"
    THEN CHOOSE i \in 1..Len(s) : s[i] = "\n" /\ \A k \in 1..(i - 1) : s[k] # "\n"
    ELSE 0

RECURSIVE Split(_)
\* strings.Split(s, "\n")
Split(s) ==
    IF LineBreak(s) = 0 THEN <<s>>
    ELSE <<SubSeq(s, 1, LineBreak(s) - 1)>> \o Split(SubSeq(s, LineBreak(s) + 1, Len(s)))

\* html.EscapeString replaces these five characters.
EscapeChar(c) ==
    CASE c = "&" -> <<"&", "a", "m", "p", ";">>
      [] c = "<" -> <<"&", "l", "t", ";">>
      [] c = ">" -> <<"&", "g", "t", ";">>
      [] c = "'" -> <<"&", "#", "3", "9", ";">>
      [] c = "\"" -> <<"&", "#", "3", "4", ";">>
      [] OTHER -> <<c>>

EscapeString(s) == Flatten([i \in 1..Len(s) |-> EscapeChar(s[i])])

Drop(s, n) == SubSeq(s, n + 1, Len(s))

RECURSIVE UnescapeString(_)
\* html.UnescapeString, for the five entities EscapeString writes: the text
\* a reader of the HTML sees.
UnescapeString(s) ==
    IF s = <<>> THEN <<>>
    ELSE IF HasPrefix(s, <<"&", "a", "m", "p", ";">>) THEN <<"&">> \o UnescapeString(Drop(s, 5))
    ELSE IF HasPrefix(s, <<"&", "l", "t", ";">>) THEN <<"<">> \o UnescapeString(Drop(s, 4))
    ELSE IF HasPrefix(s, <<"&", "g", "t", ";">>) THEN <<">">> \o UnescapeString(Drop(s, 4))
    ELSE IF HasPrefix(s, <<"&", "#", "3", "9", ";">>) THEN <<"'">> \o UnescapeString(Drop(s, 5))
    ELSE IF HasPrefix(s, <<"&", "#", "3", "4", ";">>) THEN <<"\"">> \o UnescapeString(Drop(s, 5))
    ELSE <<Head(s)>> \o UnescapeString(Tail(s))

\* ------------------------------------------------------------------------
\* logrus levels
\* ------------------------------------------------------------------------

PanicLevel == 0
FatalLevel == 1
ErrorLevel == 2
WarnLevel == 3
InfoLevel == 4
DebugLevel == 5
TraceLevel == 6

\* logrus.AllLevels, in the order the framework declares them.
AllLevels ==
    <<PanicLevel, FatalLevel, ErrorLevel, WarnLevel, InfoLevel, DebugLevel, TraceLevel>>

LevelValues == {AllLevels[i] : i \in 1..Len(AllLevels)}

\* ------------------------------------------------------------------------
\* createMessage
\* ------------------------------------------------------------------------

LblPanic == <<"<", "b", ">", "P", "A", "N", "I", "C", "<", "/", "b", ">">>
LblFatal == <<"<", "b", ">", "F", "A", "T", "A", "L", "<", "/", "b", ">">>
LblError == <<"<", "b", ">", "E", "R", "R", "O", "R", "<", "/", "b", ">">>
LblWarn == <<"<", "b", ">", "W", "A", "R", "N", "I", "N", "G", "<", "/", "b", ">">>
LblInfo == <<"<", "b", ">", "I", "N", "F", "O", "<", "/", "b", ">">>
LblDebug == <<"<", "b", ">", "D", "E", "B", "U", "G", "<", "/", "b", ">">>
PreOpen == <<"<", "p", "r", "e", ">">>
PreClose == <<"<", "/", "p", "r", "e", ">">>

\* The switch with a label for every level of the enum.
LevelLabelAll(level) ==
    CASE level = PanicLevel -> LblPanic
      [] level = FatalLevel -> LblFatal
      [] level = ErrorLevel -> LblError
      [] level = WarnLevel -> LblWarn
      [] level = InfoLevel -> LblInfo
      [] level = DebugLevel -> LblDebug
      [] OTHER -> <<"<", "b", ">", "T", "R", "A", "C", "E", "<", "/", "b", ">">>

\* The switch on entry.Level: no default branch, msg stays "".
LevelLabel(level) ==
    CASE level = PanicLevel -> LblPanic
      [] level = FatalLevel -> LblFatal
      [] level = ErrorLevel -> LblError
      [] level = WarnLevel -> LblWarn
      [] level = InfoLevel -> LblInfo
      [] level = DebugLevel -> LblDebug
      [] OTHER -> <<>>

\* A field value is an int or a string; %+v renders it.
IntVal(n) == [kind |-> "int", int |-> n, str |-> <<>>]
StrVal(s) == [kind |-> "str", int |-> 0, str |-> s]
FormatValue(v) == IF v.kind = "int" THEN Itoa(v.int) ELSE v.str

\* The field line without html.EscapeString.
FieldLineRaw(k, v) == <<"\t">> \o k \o <<":", " ">> \o FormatValue(v)

\* html.EscapeString(fmt.Sprintf("\t%s: %+v", k, v))
FieldLine(k, v) == EscapeString(<<"\t">> \o k \o <<":", " ">> \o FormatValue(v))

RECURSIVE AppendFields(_, _, _)
\* The range loop over entry.Data, visiting the keys in the order `order`.
AppendFields(msg, data, order) ==
    IF order = <<>> THEN msg
    ELSE AppendFields(Join2(msg, FieldLine(Head(order), data[Head(order)]), <<"\n">>),
                      data, Tail(order))

\* The orders in which a range over the map may visit its keys.
KeyOrders(data) ==
    LET keys == DOMAIN data
        n == Cardinality(keys)
    IN {o \in [1..n -> keys] : \A i, j \in 1..n : i # j => o[i] # o[j]}

\* createMessage without the block of fields (lines 203-209).
createMessageNoFields(entry, appName, order) ==
    Join2(Join2(LevelLabel(entry.Level), appName, <<"@">>), entry.Message, <<" ", "-", " ">>)

\* createMessage(entry) with h.AppName() = appName and the map visited in `order`.
createMessage(entry, appName, order) ==
    LET m1 == Join2(LevelLabel(entry.Level), appName, <<"@">>)
        m2 == Join2(m1, entry.Message, <<" ", "-", " ">>)
    IN IF Cardinality(DOMAIN entry.Data) > 0
       THEN Join2(AppendFields(Join2(m2, PreOpen, <<"\n">>), entry.Data, order),
                  PreClose, <<"\n">>)
       ELSE m2

\* ------------------------------------------------------------------------
\* The remote exchange: apiResponse, verifyToken and sendMessage
\* ------------------------------------------------------------------------

GenericMsg == <<"R", "e", "c", "e", "i", "v", "e", "d", " ", "e", "r", "r", "o", "r", " ", "r", "e", "s", "p", "o", "n", "s", "e", " ", "f", "r", "o", "m", " ", "T", "e", "l", "e", "g", "r", "a", "m", " ", "A", "P", "I">>
CodeOpen == <<" ", "(", "e", "r", "r", "o", "r", " ", "c", "o", "d", "e", " ">>
NoVerb == <<"%", "!", "(", "N", "O", "V", "E", "R", "B", ")">>
Missing == <<"(", "M", "I", "S", "S", "I", "N", "G", ")">>
JOk == <<"\"", "o", "k", "\"", ":", " ">>
JCode == <<"\"", "e", "r", "r", "o", "r", "_", "c", "o", "d", "e", "\"", ":", " ">>
JDesc == <<"\"", "d", "e", "s", "c", "r", "i", "p", "t", "i", "o", "n", "\"", ":", " ">>
JResult == <<"\"", "r", "e", "s", "u", "l", "t", "\"", ":", " ">>
JTrue == <<"t", "r", "u", "e">>
JFalse == <<"f", "a", "l", "s", "e">>

\* apiResponse: a nil *int / *string is Has... = FALSE.  Result is an opaque
\* payload; when present it is the JSON value true.
ApiResponse(ok, hasCode, code, hasDesc, desc, hasResult) ==
    [Ok |-> ok, HasErrorCode |-> hasCode, ErrorCode |-> code,
     HasDesc |-> hasDesc, Desc |-> desc, HasResult |-> hasResult]

\* What one HTTP exchange gives the client: the request failed (client.Get or
\* client.Post returned err), the body was not decodable, or a decoded body.
RequestFailed(text) ==
    [kind |-> "request", text |-> text, res |-> ApiResponse(FALSE, FALSE, 0, FALSE, <<>>, FALSE)]
BodyUndecodable(text) ==
    [kind |-> "decode", text |-> text, res |-> ApiResponse(FALSE, FALSE, 0, FALSE, <<>>, FALSE)]
Decoded(res) == [kind |-> "body", text |-> <<>>, res |-> res]

\* Go error values: nil, the error of the failed request, the decoder's
\* error, or the error built with fmt.Errorf from the response.
Nil == [kind |-> "nil", text |-> <<>>]
RequestErr(x) == [kind |-> "request", text |-> x.text]
DecodeErr(x) == [kind |-> "decode", text |-> x.text]
ApiErr(text) == [kind |-> "api", text |-> text]

FmtFlags == {"#", "0", "+", "-", " "}
FmtDigits == {"0", "1", "2", "3", "4", "5", "6", "7", "8", "9"}

\* The first index at or after i of a character outside S (Len(f) + 1 if none).
SkipWhile(f, i, S) ==
    CHOOSE j \in i..(Len(f) + 1) :
        /\ \A k \in i..(j - 1) : f[k] \in S
        /\ j = Len(f) + 1 \/ f[j] \notin S

RECURSIVE Expand(_, _)
\* fmt's doPrintf on format f from index i with no operands: flags, width
\* and precision are skipped, %% is a percent sign, any other verb has no
\* operand (%!v(MISSING)), a % that ends the format has no verb.
\* (Argument indexes and * widths are not in the modelled alphabet.)
Expand(f, i) ==
    IF i > Len(f) THEN <<>>
    ELSE IF f[i] # "%" THEN <<f[i]>> \o Expand(f, i + 1)
    ELSE LET a == SkipWhile(f, i + 1, FmtFlags)
             b == SkipWhile(f, a, FmtDigits)
             c == IF b <= Len(f) /\ f[b] = "." THEN SkipWhile(f, b + 1, FmtDigits) ELSE b
         IN IF c > Len(f) THEN NoVerb
            ELSE IF f[c] = "%" THEN <<"%">> \o Expand(f, c + 1)
            ELSE <<"%", "!", f[c]>> \o Missing \o Expand(f, c + 1)

\* fmt.Errorf(format) with no operands: the text of the error it returns.
Errorf(format) == Expand(format, 1)

\* encoding/json string encoding (HTML-escaping on) of one character.
JsonChar(c) ==
    CASE c = "\"" -> <<"\\", "\"">>
      [] c = "\\" -> <<"\\", "\\">>
      [] c = "\n" -> <<"\\", "n">>
      [] c = "\t" -> <<"\\", "t">>
      [] c = "<" -> <<"\\", "u", "0", "0", "3", "c">>
      [] c = ">" -> <<"\\", "u", "0", "0", "3", "e">>
      [] c = "&" -> <<"\\", "u", "0", "0", "2", "6">>
      [] OTHER -> <<c>>

JsonString(s) == <<"\"">> \o Flatten([i \in 1..Len(s) |-> JsonChar(s[i])]) \o <<"\"">>

\* json.MarshalIndent(apiRes, "", "\t"): nil pointers are omitted.
MarshalIndent(apiRes) ==
    LET sep == <<",", "\n", "\t">>
    IN <<"{", "\n", "\t">> \o JOk \o (IF apiRes.Ok THEN JTrue ELSE JFalse)
       \o (IF apiRes.HasErrorCode THEN sep \o JCode \o Itoa(apiRes.ErrorCode) ELSE <<>>)
       \o (IF apiRes.HasDesc THEN sep \o JDesc \o JsonString(apiRes.Desc) ELSE <<>>)
       \o (IF apiRes.HasResult THEN sep \o JResult \o JTrue ELSE <<>>)
       \o <<"\n", "}">>

\* verifyToken, lines 119-127: the message built from a response with !Ok.
verifyTokenMsg(apiRes) ==
    LET m0 == GenericMsg
        m1 == IF apiRes.HasErrorCode
              THEN m0 \o CodeOpen \o Itoa(apiRes.ErrorCode) \o <<")">>
              ELSE m0
    IN IF apiRes.HasDesc THEN m1 \o <<":", " ">> \o apiRes.Desc ELSE m1

\* verifyToken dropping the decoder's error (lines 113-115).
verifyTokenUnchecked(x) ==
    IF x.kind = "request" THEN RequestErr(x)
    ELSE IF x.kind = "body" /\ ~x.res.Ok
         THEN ApiErr(verifyTokenMsg(x.res) \o <<"\n">> \o MarshalIndent(x.res))
         ELSE Nil

\* verifyToken's result for the exchange x of its GET .../getMe.
verifyToken(x) ==
    IF x.kind = "request" THEN RequestErr(x)
    ELSE IF x.kind = "decode" THEN DecodeErr(x)
    ELSE IF ~x.res.Ok
         THEN ApiErr(verifyTokenMsg(x.res) \o <<"\n">> \o MarshalIndent(x.res))
         ELSE Nil

\* sendMessage, lines 165-173: the message built from a response with !Ok.
sendMessageMsg(apiRes) ==
    LET m0 == GenericMsg
        m1 == IF apiRes.HasErrorCode
              THEN m0 \o CodeOpen \o Itoa(apiRes.ErrorCode) \o <<")">>
              ELSE m0
    IN IF apiRes.HasDesc THEN m1 \o <<":", " ">> \o apiRes.Desc ELSE m1

\* sendMessage going on after the decoder's error: the zero apiResponse has
\* ok = false.
sendMessageErrUndecoded(x) ==
    IF x.kind = "request" THEN RequestErr(x)
    ELSE IF ~x.res.Ok THEN ApiErr(Errorf(sendMessageMsg(x.res)))
    ELSE Nil

\* sendMessage's result for the exchange x of its POST .../sendMessage.
\* The message is the FORMAT of fmt.Errorf (line 175).
sendMessageErr(x) ==
    IF x.kind = "request" THEN RequestErr(x)
    ELSE IF x.kind = "decode" THEN DecodeErr(x)
    ELSE IF ~x.res.Ok THEN ApiErr(Errorf(sendMessageMsg(x.res)))
    ELSE Nil

\* The writes sendMessage itself makes to os.Stderr for exchange x (line 153
\* is its only write).
sendMessageDiag(x) == IF x.kind = "request" THEN {"sendMessage"} ELSE {}

\* ------------------------------------------------------------------------
\* The hook: struct TelegramHook, its options, accessors and mutators
\* ------------------------------------------------------------------------

Fields == {"appName", "authToken", "chatId", "threadId", "level", "async"}

\* The struct literal of NewTelegramHookWithClient; timeout is client.Timeout.
TelegramHook(appName, authToken, chatId, threadId, timeout) ==
    [appName |-> appName, authToken |-> authToken, chatId |-> chatId,
     threadId |-> threadId, level |-> ErrorLevel, async |-> FALSE,
     timeout |-> timeout]

\* The assignments made by the mutators (under the write lock).
SetAppName(hh, v) == [hh EXCEPT !.appName = v]
SetAuthToken(hh, v) == [hh EXCEPT !.authToken = v]
SetChatId(hh, v) == [hh EXCEPT !.chatId = v]
\* A mutator assigning to its neighbour's field.
SetThreadIdWrongField(hh, v) == [hh EXCEPT !.chatId = v]
SetThreadId(hh, v) == [hh EXCEPT !.threadId = v]
SetLevel(hh, v) == [hh EXCEPT !.level = v]
\* A mutator that also resets the credential.
SetAsyncResetsToken(hh, v) == [hh EXCEPT !.async = v, !.authToken = ""]
SetAsync(hh, v) == [hh EXCEPT !.async = v]

\* The mutator of field f.
Setter(hh, f, v) ==
    CASE f = "appName" -> SetAppName(hh, v)
      [] f = "authToken" -> SetAuthToken(hh, v)
      [] f = "chatId" -> SetChatId(hh, v)
      [] f = "threadId" -> SetThreadId(hh, v)
      [] f = "level" -> SetLevel(hh, v)
      [] f = "async" -> SetAsync(hh, v)

\* The values returned by the accessors (under the read lock).
AppName(hh) == hh.appName
AuthToken(hh) == hh.authToken
ChatId(hh) == hh.chatId
ThreadId(hh) == hh.threadId
Level(hh) == hh.level
Async(hh) == hh.async

\* The accessor of field f.
Getter(hh, f) ==
    CASE f = "appName" -> AppName(hh)
      [] f = "authToken" -> AuthToken(hh)
      [] f = "chatId" -> ChatId(hh)
      [] f = "threadId" -> ThreadId(hh)
      [] f = "level" -> Level(hh)
      [] f = "async" -> Async(hh)

\* fmt.Sprintf("https://api.telegram.org/bot%s", h.authToken), kept as the
\* fixed template and the credential it is filled with.
ApiEndpoint(hh) == <<"https://api.telegram.org/bot", hh.authToken>>

\* url.JoinPath(endpoint, method)
JoinPath(endpoint, method) == endpoint \o <<"/", method>>

\* The slice taken from the other end: logrus.AllLevels[h.level:]
LevelsFrom(hh) == SubSeq(AllLevels, hh.level + 1, Len(AllLevels))

\* The slice one short: logrus.AllLevels[:h.level]
LevelsBelow(hh) == SubSeq(AllLevels, 1, hh.level)

\* logrus.AllLevels[:h.level+1]
Levels(hh) == SubSeq(AllLevels, 1, hh.level + 1)

\* Options: WithAsync(async), WithTimeout(timeout), WithLevel(level).
WithAsync(async) == <<"WithAsync", async>>
WithTimeout(timeout) == <<"WithTimeout", timeout>>
WithLevel(level) == <<"WithLevel", level>>

\* opt(&h)
ApplyOption(hh, opt) ==
    CASE opt[1] = "WithAsync" -> SetAsync(hh, opt[2])
      [] opt[1] = "WithTimeout" ->
            IF opt[2] > 0 THEN [hh EXCEPT !.timeout = opt[2]] ELSE hh
      [] opt[1] = "WithLevel" -> SetLevel(hh, opt[2])

RECURSIVE ApplyOptions(_, _)
\* for _, opt := range options { opt(&h) }
ApplyOptions(hh, options) ==
    IF options = <<>> THEN hh
    ELSE ApplyOptions(ApplyOption(hh, Head(options)), Tail(options))

\* ------------------------------------------------------------------------
\* The remote endpoint
\* ------------------------------------------------------------------------

Timeout == <<"t", "i", "m", "e", "o", "u", "t">>
EOF == <<"E", "O", "F">>
Unauthorized == <<"U", "n", "a", "u", "t", "h", "o", "r", "i", "z", "e", "d">>
HalfOff == <<"5", "0", "%", " ", "o", "f", "f">>

\* The credentials the remote endpoint accepts.
ValidTokens == {"123:abc"}

\* Responses with ok = false: with and without a code, with and without a
\* description.
Rejections ==
    {ApiResponse(FALSE, FALSE, 0, FALSE, <<>>, FALSE),
     ApiResponse(FALSE, TRUE, 401, FALSE, <<>>, FALSE),
     ApiResponse(FALSE, FALSE, 0, TRUE, Unauthorized, FALSE),
     ApiResponse(FALSE, TRUE, 401, TRUE, Unauthorized, FALSE),
     ApiResponse(FALSE, TRUE, 400, TRUE, HalfOff, FALSE)}

Accepted == ApiResponse(TRUE, FALSE, 0, FALSE, <<>>, TRUE)

\* The exchanges a request to `url` (<<template, credential, "/", method>>)
\* can end in.  The request may fail and the body may be undecodable
\* whatever the credential; only a valid credential is ever answered ok.
Remote(url) ==
    {RequestFailed(Timeout), BodyUndecodable(EOF)}
        \cup {Decoded(r) : r \in Rejections}
        \cup (IF url[2] \in ValidTokens THEN {Decoded(Accepted)} ELSE {})

\* ------------------------------------------------------------------------
\* State
\* ------------------------------------------------------------------------

MaxFires == 2
MaxCalls == 3
MaxFormats == 2
MaxOps == 2

VARIABLES
    h,       \* the TelegramHook struct
    mu,      \* h.mu: w is "free", "pending" (a writer waits for the readers
             \* to leave) or "held"; r counts the read locks held
    ctor,    \* the constructor call: its state and what it returned
    fire,    \* the bag of Fire calls made, each with the sendMessage it runs
             \* or detaches
    thr,     \* the bag of accessor, mutator and Levels calls in progress or
             \* returned with a result
    fmt,     \* createMessage calls on their own: input and outputs
    hist     \* history: the calls counted, the values the mutators stored

vars == <<h, mu, ctor, fire, thr, fmt, hist>>

\* The fields hold values of different Go types: an argument or a result is
\* kept with the name of what it belongs to.
Val(f, v) == [of |-> f, v |-> <<v>>]
NoVal == [of |-> "none", v |-> <<>>]

ZeroHook ==
    [appName |-> <<>>, authToken |-> "", chatId |-> "", threadId |-> "",
     level |-> PanicLevel, async |-> FALSE, timeout |-> 0]

NoEntry == [Level |-> PanicLevel, Message |-> <<>>, Data |-> <<>>]
NoReq == [ChatId |-> "", ThreadId |-> "", Text |-> <<>>, ParseMode |-> "", url |-> <<>>]
NoExchange ==
    [kind |-> "none", text |-> <<>>, res |-> ApiResponse(FALSE, FALSE, 0, FALSE, <<>>, FALSE)]
NoFmt == [appName |-> <<>>, entry |-> NoEntry, out |-> <<>>]
NoHist ==
    [calls |-> 0, passed |-> [f \in Fields |-> {}], last |-> [f \in Fields |-> NoVal],
     configs |-> <<>>, arrivals |-> <<>>]

\* b with one copy of old replaced by new.
Replace(b, old, new) == (b (-) SetToBag({old})) (+) SetToBag({new})

Init ==
    /\ h = ZeroHook
    /\ mu = [w |-> "free", r |-> 0]
    /\ ctor = [state |-> "new", hook |-> FALSE, err |-> Nil, getMe |-> 0,
               made |-> ZeroHook, req |-> [url |-> <<>>, timeout |-> 0],
               resp |-> NoExchange]
    /\ fire = EmptyBag
    /\ thr = EmptyBag
    /\ fmt = NoFmt
    /\ hist = NoHist

\* ------------------------------------------------------------------------
\* Construction
\* ------------------------------------------------------------------------

\* The constructor verifying the token before it applies the options.
NewTelegramHookVerifyFirst(appName, authToken, chatId, threadId, timeout, options, x) ==
    /\ ctor.state = "new"
    /\ LET h0 == TelegramHook(appName, authToken, chatId, threadId, timeout)
           hh == ApplyOptions(h0, options)
           err == verifyToken(x)
       IN /\ x \in Remote(JoinPath(ApiEndpoint(h0), "getMe"))
          /\ h' = hh
          /\ ctor' = [state |-> "done", hook |-> (err = Nil), err |-> err,
                      getMe |-> ctor.getMe + 1, made |-> hh,
                      req |-> [url |-> JoinPath(ApiEndpoint(h0), "getMe"),
                               timeout |-> h0.timeout],
                      resp |-> x]
    /\ UNCHANGED <<mu, fire, thr, fmt, hist>>

\* NewTelegramHookWithClient(appName, authToken, chatId, threadId, client,
\* options...), where client.Timeout = timeout and the getMe exchange ends
\* in x.  h is local to the call until it is returned.  ctor.req is the
\* getMe request: its URL and the client's timeout when it is issued.
NewTelegramHookWithClient(appName, authToken, chatId, threadId, timeout, options, x) ==
    /\ ctor.state = "new"
    /\ LET hh == ApplyOptions(TelegramHook(appName, authToken, chatId, threadId, timeout),
                              options)
           err == verifyToken(x)
       IN /\ x \in Remote(JoinPath(ApiEndpoint(hh), "getMe"))
          /\ h' = hh
          /\ ctor' = [state |-> "done", hook |-> (err = Nil), err |-> err,
                      getMe |-> ctor.getMe + 1, made |-> hh,
                      req |-> [url |-> JoinPath(ApiEndpoint(hh), "getMe"),
                               timeout |-> hh.timeout],
                      resp |-> x]
    /\ UNCHANGED <<mu, fire, thr, fmt, hist>>

\* NewTelegramHook: the same with a fresh http.Client (no timeout).
NewTelegramHook(appName, authToken, chatId, threadId, options, x) ==
    NewTelegramHookWithClient(appName, authToken, chatId, threadId, 0, options, x)

\* ------------------------------------------------------------------------
\* h.mu
\* ------------------------------------------------------------------------

\* A read lock that does not exclude writers.
CanRLockAlways == TRUE

\* RLock returns only while no writer holds or waits for the lock.
CanRLock == mu.w = "free"
RLocked == [mu EXCEPT !.r = mu.r + 1]
RUnlocked == [mu EXCEPT !.r = mu.r - 1]

\* ------------------------------------------------------------------------
\* Fire
\* ------------------------------------------------------------------------

GetterSites == {"AppName", "Async", "ChatId", "ThreadId", "ApiEndpoint"}

\* A Fire call that has just begun: pc is the accessor it is at, lk whether
\* it holds the read lock there, resp what its exchange with the remote
\* endpoint ended in, diag its writes to os.Stderr, posts the number of
\* requests it has issued.  from is history: how many configurations of the
\* destination had been stored when the call began.
NewFire(entry) ==
    [pc |-> "AppName", lk |-> FALSE, entry |-> entry, msg |-> <<>>, mode |-> "unread",
     returned |-> FALSE, ret |-> Nil, req |-> NoReq, resp |-> NoExchange, err |-> Nil,
     diag |-> {}, posts |-> 0, from |-> Len(hist.configs)]

\* A thread calls h.Fire(entry).
Fire(entry) ==
    /\ ctor.hook
    /\ BagCardinality(fire) < MaxFires
    /\ fire' = fire (+) SetToBag({NewFire(entry)})
    /\ UNCHANGED <<h, mu, ctor, thr, fmt, hist>>

\* The accessor the call is at takes the read lock.
FireRLock(c) ==
    /\ c.pc \in GetterSites
    /\ ~c.lk
    /\ CanRLock
    /\ mu' = RLocked
    /\ fire' = Replace(fire, c, [c EXCEPT !.lk = TRUE])
    /\ UNCHANGED <<h, ctor, thr, fmt, hist>>

\* msg := h.createMessage(entry): h.AppName() returns, the message is built.
FireCreateMessage(c, order) ==
    /\ c.pc = "AppName"
    /\ c.lk
    /\ order \in KeyOrders(c.entry.Data)
    /\ mu' = RUnlocked
    /\ fire' = Replace(fire, c,
                   [c EXCEPT !.lk = FALSE, !.pc = "Async",
                             !.msg = createMessage(c.entry, AppName(h), order)])
    /\ UNCHANGED <<h, ctor, thr, fmt, hist>>

\* Fire with the accessor returning early misread: in asynchronous mode the
\* call waits for the send like an inline one.
FireAsyncWaits(c) ==
    /\ c.pc = "Async"
    /\ c.lk
    /\ mu' = RUnlocked
    /\ fire' = Replace(fire, c,
                   [c EXCEPT !.lk = FALSE, !.pc = "ChatId",
                             !.mode = IF Async(h) THEN "async" ELSE "sync",
                             !.returned = FALSE, !.ret = Nil])
    /\ UNCHANGED <<h, ctor, thr, fmt, hist>>

\* if h.Async() { go h.sendMessage(msg); return nil }; otherwise the call
\* goes on to h.sendMessage(msg) itself.
FireAsync(c) ==
    /\ c.pc = "Async"
    /\ c.lk
    /\ mu' = RUnlocked
    /\ fire' = Replace(fire, c,
                   [c EXCEPT !.lk = FALSE, !.pc = "ChatId",
                             !.mode = IF Async(h) THEN "async" ELSE "sync",
                             !.returned = Async(h), !.ret = Nil])
    /\ UNCHANGED <<h, ctor, thr, fmt, hist>>

\* sendMessage: ChatId: h.ChatId()
SendChatId(c) ==
    /\ c.pc = "ChatId"
    /\ c.lk
    /\ mu' = RUnlocked
    /\ fire' = Replace(fire, c,
                   [c EXCEPT !.lk = FALSE, !.pc = "ThreadId", !.req.ChatId = ChatId(h)])
    /\ UNCHANGED <<h, ctor, thr, fmt, hist>>

\* sendMessage: ThreadId: h.ThreadId()
SendThreadId(c) ==
    /\ c.pc = "ThreadId"
    /\ c.lk
    /\ mu' = RUnlocked
    /\ fire' = Replace(fire, c,
                   [c EXCEPT !.lk = FALSE, !.pc = "ApiEndpoint",
                             !.req.ThreadId = ThreadId(h)])
    /\ UNCHANGED <<h, ctor, thr, fmt, hist>>

\* sendMessage behind a queue: the request is posted only when no other
\* request is in flight.
SendPostQueued(c) ==
    /\ c.pc = "ApiEndpoint"
    /\ c.lk
    /\ \A d \in BagToSet(fire) : d.pc # "Post"
    /\ mu' = RUnlocked
    /\ fire' = Replace(fire, c,
                   [c EXCEPT !.lk = FALSE, !.pc = "Post", !.posts = c.posts + 1,
                             !.req.Text = c.msg, !.req.ParseMode = "HTML",
                             !.req.url = JoinPath(ApiEndpoint(h), "sendMessage")])
    /\ UNCHANGED <<h, ctor, thr, fmt>>

\* sendMessage posting the request with the read lock of ApiEndpoint still
\* held.
SendPostHoldingLock(c) ==
    /\ c.pc = "ApiEndpoint"
    /\ c.lk
    /\ fire' = Replace(fire, c,
                   [c EXCEPT !.pc = "Post", !.posts = c.posts + 1,
                             !.req.Text = c.msg, !.req.ParseMode = "HTML",
                             !.req.url = JoinPath(ApiEndpoint(h), "sendMessage")])
    /\ UNCHANGED <<h, mu, ctor, thr, fmt>>

\* sendMessage: h.ApiEndpoint() returns and the request is posted.
SendPost(c) ==
    /\ c.pc = "ApiEndpoint"
    /\ c.lk
    /\ mu' = RUnlocked
    /\ fire' = Replace(fire, c,
                   [c EXCEPT !.lk = FALSE, !.pc = "Post", !.posts = c.posts + 1,
                             !.req.Text = c.msg, !.req.ParseMode = "HTML",
                             !.req.url = JoinPath(ApiEndpoint(h), "sendMessage")])
    /\ UNCHANGED <<h, ctor, thr, fmt>>

\* What Fire does with the result err of an inline sendMessage (lines
\* 230-235): its writes to os.Stderr, and what it returns.
FireDiag(err) == IF err # Nil THEN {"Fire"} ELSE {}
FireResult(err) == IF err # Nil THEN err ELSE Nil

\* sendMessage with a retry: after a failed exchange the request is issued
\* again.
SendResponseRetry(c, x) ==
    /\ c.pc = "Post"
    /\ x \in Remote(c.req.url)
    /\ LET err == sendMessageErr(x)
           inline == c.mode = "sync"
       IN fire' = Replace(fire, c,
                      IF err # Nil
                      THEN [c EXCEPT !.pc = "ApiEndpoint"]
                      ELSE [c EXCEPT !.pc = "done", !.resp = x, !.err = err, !.req = NoReq,
                                     !.msg = <<>>, !.returned = TRUE,
                                     !.ret = IF inline THEN Nil ELSE c.ret])
    /\ UNCHANGED <<h, mu, ctor, thr, fmt, hist>>

\* The exchange of call c ends in x: sendMessage returns.  Detached, its
\* result is dropped; inline, Fire handles it and returns.
SendResponse(c, x) ==
    /\ c.pc = "Post"
    /\ x \in Remote(c.req.url)
    /\ LET err == sendMessageErr(x)
           inline == c.mode = "sync"
       IN fire' = Replace(fire, c,
                      [c EXCEPT !.pc = "done", !.resp = x, !.err = err, !.req = NoReq,
                                !.msg = <<>>,
                                !.returned = TRUE,
                                !.ret = IF inline THEN FireResult(err) ELSE c.ret,
                                !.diag = sendMessageDiag(x)
                                           \cup (IF inline THEN FireDiag(err) ELSE {})])
    /\ UNCHANGED <<h, mu, ctor, thr, fmt, hist>>

\* ------------------------------------------------------------------------
\* Accessors, mutators and Levels called by threads
\* ------------------------------------------------------------------------

\* A call of the accessor of f (op "get"), of the mutator of f with arg (op
\* "set") or of Levels (op "Levels") that has just begun.  seen is history:
\* the values the mutators of f had stored when the call began.
NewCall(op, f, arg) ==
    [pc |-> "call", op |-> op, f |-> f, arg |-> arg, ret |-> NoVal,
     seen |-> IF f \in Fields THEN hist.passed[f] ELSE {}]

\* A thread calls an accessor, a mutator or Levels.
Call(op, f, arg) ==
    /\ ctor.hook
    /\ thr' = thr (+) SetToBag({NewCall(op, f, arg)})
    /\ UNCHANGED <<h, mu, ctor, fire, fmt>>

\* h.mu.RLock() in an accessor or in Levels
RLock(c) ==
    /\ c.pc = "call"
    /\ c.op \in {"get", "Levels"}
    /\ CanRLock
    /\ mu' = RLocked
    /\ thr' = Replace(thr, c, [c EXCEPT !.pc = "rlocked"])
    /\ UNCHANGED <<h, ctor, fire, fmt, hist>>

\* return h.<field>, then the deferred RUnlock
GetReturn(c) ==
    /\ c.pc = "rlocked"
    /\ c.op = "get"
    /\ mu' = RUnlocked
    /\ thr' = Replace(thr, c, [c EXCEPT !.pc = "returned", !.ret = Val(c.f, Getter(h, c.f))])
    /\ UNCHANGED <<h, ctor, fire, fmt, hist>>

\* return logrus.AllLevels[:h.level+1], then the deferred RUnlock
LevelsReturn(c) ==
    /\ c.pc = "rlocked"
    /\ c.op = "Levels"
    /\ mu' = RUnlocked
    /\ thr' = Replace(thr, c, [c EXCEPT !.pc = "returned", !.ret = Val("Levels", Levels(h))])
    /\ UNCHANGED <<h, ctor, fire, fmt, hist>>

\* h.mu.Lock(), first half: the writer is announced, later RLocks wait.
LockPending(c) ==
    /\ c.pc = "call"
    /\ c.op = "set"
    /\ mu.w = "free"
    /\ mu' = [mu EXCEPT !.w = "pending"]
    /\ thr' = Replace(thr, c, [c EXCEPT !.pc = "pending"])
    /\ UNCHANGED <<h, ctor, fire, fmt, hist>>

\* h.mu.Lock(), second half: the readers have left, Lock returns.
LockHeld(c) ==
    /\ c.pc = "pending"
    /\ mu.r = 0
    /\ mu' = [mu EXCEPT !.w = "held"]
    /\ thr' = Replace(thr, c, [c EXCEPT !.pc = "locked"])
    /\ UNCHANGED <<h, ctor, fire, fmt, hist>>

\* h.<field> = arg, then the deferred Unlock: the mutator returns.
SetReturn(c) ==
    /\ c.pc = "locked"
    /\ c.op = "set"
    /\ h' = Setter(h, c.f, c.arg.v[1])
    /\ mu' = [mu EXCEPT !.w = "free"]
    /\ thr' = thr (-) SetToBag({c})
    /\ UNCHANGED <<ctor, fire, fmt>>

\* ------------------------------------------------------------------------
\* Specification Spec: a hook is constructed, Fire is called MaxFires times
\* while a thread reconfigures the hook
\* ------------------------------------------------------------------------

svc == <<"s", "v", "c">>
boom == <<"b", "o", "o", "m">>

Exchanges ==
    {RequestFailed(Timeout), BodyUndecodable(EOF), Decoded(Accepted)}
        \cup {Decoded(r) : r \in Rejections}

\* The values the mutators are called with.
Values(f) ==
    CASE f = "appName" -> {svc, <<"a", "p", "p">>}
      [] f = "authToken" -> {"123:abc", ""}
      [] f = "chatId" -> {"@chat", "@other"}
      [] f = "threadId" -> {"", "7"}
      [] f = "level" -> {ErrorLevel, InfoLevel}
      [] f = "async" -> BOOLEAN

\* The exchanges the sendMessage requests end in.
SendExchanges ==
    {RequestFailed(Timeout), BodyUndecodable(EOF), Decoded(Accepted),
     Decoded(ApiResponse(FALSE, TRUE, 401, TRUE, Unauthorized, FALSE)),
     Decoded(ApiResponse(FALSE, TRUE, 400, TRUE, HalfOff, FALSE))}

FireEntries == {[Level |-> ErrorLevel, Message |-> boom, Data |-> (<<"n">> :> IntVal(1))]}
FireSetFields == {"authToken", "async"}

New ==
    \E authToken \in Values("authToken"), options \in {<<>>, <<WithAsync(TRUE)>>},
       x \in Exchanges :
        NewTelegramHook(svc, authToken, "@chat", "", options, x)

CallFire == \E entry \in FireEntries : Fire(entry)
StepFireRLock == \E c \in BagToSet(fire) : FireRLock(c)
StepFireCreateMessage ==
    \E c \in BagToSet(fire) : \E order \in KeyOrders(c.entry.Data) :
        FireCreateMessage(c, order)
StepFireAsync == \E c \in BagToSet(fire) : FireAsync(c)
StepSendChatId == \E c \in BagToSet(fire) : SendChatId(c)
StepSendThreadId == \E c \in BagToSet(fire) : SendThreadId(c)
StepSendPost == \E c \in BagToSet(fire) : SendPost(c) /\ UNCHANGED hist
StepSendResponse == \E c \in BagToSet(fire), x \in SendExchanges : SendResponse(c, x)

\* One thread reconfigures the hook, one mutator call after the other.
CallSet ==
    /\ thr = EmptyBag
    /\ \E f \in FireSetFields : \E v \in Values(f) : Call("set", f, Val(f, v))
    /\ UNCHANGED hist
StepLockPending == \E c \in BagToSet(thr) : LockPending(c)
StepLockHeld == \E c \in BagToSet(thr) : LockHeld(c)
StepSetReturn == \E c \in BagToSet(thr) : SetReturn(c) /\ UNCHANGED hist

Next ==
    \/ New
    \/ CallFire
    \/ StepFireRLock
    \/ StepFireCreateMessage
    \/ StepFireAsync
    \/ StepSendChatId
    \/ StepSendThreadId
    \/ StepSendPost
    \/ StepSendResponse
    \/ CallSet
    \/ StepLockPending
    \/ StepLockHeld
    \/ StepSetReturn

Spec == Init /\ [][Next]_vars

\* The Fire calls made so far.
FireCalls == BagToSet(fire)
Succeeded(x) == x.kind = "body" /\ x.res.Ok
Rejected(x) == x.kind = "body" /\ ~x.res.Ok

\* C3: a Fire call that read the delivery mode as asynchronous has returned
\* nil to its caller, whether its detached send is still waiting for the
\* remote endpoint, has failed, has been rejected or never completes.
C3_AsyncFireReturnsNil ==
    \A c \in FireCalls : c.mode = "async" => c.returned /\ c.ret = Nil

\* A detached send was rejected after its Fire had returned nil.
C3_Witness ==
    \E c \in FireCalls :
        /\ c.mode = "async" /\ c.pc = "done"
        /\ Rejected(c.resp) /\ c.err # Nil
        /\ c.returned /\ c.ret = Nil

\* C4: a Fire call that read the delivery mode as synchronous returns only
\* when the round trip has finished; it returns nil iff the send succeeded;
\* on a failed send it writes a diagnostic and returns the send's error,
\* which for a rejection carries the remote-reported code and description.
C4_SyncFireReportsFailure ==
    \A c \in FireCalls :
        c.mode = "sync" =>
            /\ c.returned <=> c.pc = "done"
            /\ c.pc = "done" =>
                /\ c.ret = Nil <=> Succeeded(c.resp)
                /\ ~Succeeded(c.resp) => "Fire" \in c.diag /\ c.ret = c.err /\ c.ret # Nil
                /\ Rejected(c.resp) /\ c.resp.res.HasErrorCode =>
                       Contains(c.ret.text, Itoa(c.resp.res.ErrorCode))
                /\ Rejected(c.resp) /\ c.resp.res.HasDesc =>
                       Contains(c.ret.text, c.resp.res.Desc)

\* C5: every failed detached send has written a diagnostic to the error
\* stream.
C5_AsyncFailureDiagnosed ==
    \A c \in FireCalls :
        c.mode = "async" /\ c.pc = "done" /\ ~Succeeded(c.resp) => c.diag # {}

\* The message of the error made from a response with ok = false carries the
\* code and the description the response has, and is the generic message
\* when it has neither.
CarriesCodeAndDescription(err, res) ==
    /\ err.kind = "api"
    /\ res.HasErrorCode => Contains(err.text, Itoa(res.ErrorCode))
    /\ res.HasDesc => Contains(err.text, res.Desc)
    /\ ~res.HasErrorCode /\ ~res.HasDesc => FirstLine(err.text) = GenericMsg

\* C10: the error returned for a getMe or sendMessage response with
\* ok = false includes the remote-reported code and description whenever the
\* response carries them, and is the generic message when both are absent.
C10_RejectionErrorCarriesCodeAndDescription ==
    /\ ctor.state = "done" /\ Rejected(ctor.resp) =>
           CarriesCodeAndDescription(ctor.err, ctor.resp.res)
    /\ \A c \in FireCalls :
           c.pc = "done" /\ Rejected(c.resp) => CarriesCodeAndDescription(c.err, c.resp.res)

\* The result err of a remote call whose exchange ended in x is one of
\* three: the error of the failed request or of the decoder, unchanged; a
\* synthesized rejection; nil.
OneOfThreeOutcomes(err, x) ==
    /\ x.kind \in {"request", "decode"} <=> err.kind \in {"request", "decode"}
    /\ x.kind \in {"request", "decode"} => err.kind = x.kind /\ err.text = x.text
    /\ Rejected(x) <=> err.kind = "api"
    /\ Succeeded(x) <=> err = Nil
    /\ Cardinality({k \in {"request", "decode", "api", "nil"} : err.kind = k}) = 1

\* C14: verifyToken and sendMessage return a transport error, unchanged, iff
\* the request failed or the body could not be decoded; a synthesized
\* rejection iff the body decoded with ok = false; nil iff it decoded with
\* ok = true.
C14_ThreeOutcomes ==
    /\ ctor.state = "done" => OneOfThreeOutcomes(ctor.err, ctor.resp)
    /\ \A c \in FireCalls : c.pc = "done" => OneOfThreeOutcomes(c.err, c.resp)

\* A sendMessage whose body could not be decoded returned the decoder's
\* error.
C14_Witness ==
    \E c \in FireCalls :
        /\ c.pc = "done"
        /\ c.resp.kind = "decode"
        /\ c.err = DecodeErr(c.resp)
        /\ c.err.text = EOF

\* The credential that passed validation when the hook was constructed.
Validated == ctor.made.authToken

\* C15 as stated: a constructed hook never holds, and never issues a send
\* with, a credential that did not pass validation.
C15_NeverUnvalidatedCredential ==
    ctor.hook =>
        /\ h.authToken = Validated
        /\ \A c \in FireCalls : c.pc = "Post" => c.req.url[2] = Validated

\* C15, amended: the hook a constructor returns holds the credential that
\* passed validation, and the credential held changes only when a
\* SetAuthToken call stores its argument.
C15_ValidatedUntilSetAuthToken ==
    /\ [](ctor.hook => Succeeded(ctor.resp))
    /\ [][/\ ctor.state = "new" /\ ctor'.hook => h'.authToken = ctor'.made.authToken
          /\ ctor.hook /\ h'.authToken # h.authToken =>
                \E c \in BagToSet(thr) :
                    /\ c.op = "set" /\ c.f = "authToken" /\ c.pc = "locked"
                    /\ h'.authToken = c.arg.v[1]]_vars

\* After SetAuthToken("") a send was issued with the empty credential, which
\* never passed validation.
C15_Witness ==
    /\ ctor.hook
    /\ h.authToken = ""
    /\ \E c \in FireCalls : c.pc = "Post" /\ c.req.url[2] = "" /\ c.req.url[2] # Validated

RECURSIVE SumPosts(_)
\* The number of requests issued by the Fire calls of the bag b.
SumPosts(b) ==
    IF BagToSet(b) = {} THEN 0
    ELSE LET c == CHOOSE d \in BagToSet(b) : TRUE
         IN c.posts + SumPosts(b (-) SetToBag({c}))

\* C12: a Fire call issues no request before it reaches the send and exactly
\* one from then on, whatever the mode and the outcome; the requests issued
\* are never more than the Fire calls made.
C12_OneSendPerFire ==
    /\ \A c \in FireCalls : c.posts = IF c.pc \in {"Post", "done"} THEN 1 ELSE 0
    /\ SumPosts(fire) <= BagCardinality(fire)

\* A synchronous and an asynchronous Fire both had their send rejected and
\* issued one request each.
C12_Witness ==
    \E c, d \in FireCalls :
        /\ c.mode = "sync" /\ d.mode = "async"
        /\ c.pc = "done" /\ d.pc = "done"
        /\ Rejected(c.resp) /\ Rejected(d.resp)
        /\ c.posts = 1 /\ d.posts = 1

\* ------------------------------------------------------------------------
\* Specification SpecNew: hooks are constructed with every option and every
\* answer to getMe; Levels is called on the hook constructed
\* ------------------------------------------------------------------------

NewOptions ==
    {<<>>, <<WithAsync(TRUE)>>, <<WithTimeout(0)>>, <<WithTimeout(5)>>}
        \cup {<<WithLevel(l)>> : l \in LevelValues}
        \cup {<<WithLevel(l), WithAsync(TRUE)>> : l \in LevelValues}

NewRich ==
    \E authToken \in Values("authToken"), options \in NewOptions, x \in Exchanges :
        NewTelegramHook(svc, authToken, "@chat", "", options, x)

NewRichWithClient ==
    \E authToken \in Values("authToken"), options \in NewOptions, x \in Exchanges,
       timeout \in {0, 3} :
        NewTelegramHookWithClient(svc, authToken, "@chat", "", timeout, options, x)

\* A call counted against MaxCalls.
Counted == hist.calls < MaxCalls /\ hist' = [hist EXCEPT !.calls = hist.calls + 1]

CallLevels == Call("Levels", "Levels", NoVal) /\ Counted
StepRLock == \E c \in BagToSet(thr) : RLock(c)
StepLevelsReturn == \E c \in BagToSet(thr) : LevelsReturn(c)

NextNew ==
    \/ NewRich
    \/ NewRichWithClient
    \/ CallLevels
    \/ StepRLock
    \/ StepLevelsReturn

SpecNew == Init /\ [][NextNew]_vars

\* The Levels calls that have returned, and the set each returned.
LevelsReturned == {c \in BagToSet(thr) : c.op = "Levels" /\ c.pc = "returned"}
Enabled(c) == {c.ret.v[1][i] : i \in 1..Len(c.ret.v[1])}

\* The severity enum, most severe first; a is at least as severe as b.
Severities == <<PanicLevel, FatalLevel, ErrorLevel, WarnLevel, InfoLevel, DebugLevel, TraceLevel>>
Position(l) == CHOOSE i \in 1..Len(Severities) : Severities[i] = l
AtLeastAsSevere(a, b) == Position(a) <= Position(b)

\* C1: for every threshold T, Levels() returns exactly the severities that
\* are T or more severe than T, each once, and none less severe than T.
C1_LevelsAreThresholdAndMoreSevere ==
    \A c \in LevelsReturned :
        /\ Enabled(c) = {s \in LevelValues : AtLeastAsSevere(s, h.level)}
        /\ Len(c.ret.v[1]) = Cardinality(Enabled(c))

\* Threshold error enables exactly panic, fatal and error.
C1_Witness ==
    \E c \in LevelsReturned :
        h.level = ErrorLevel /\ Enabled(c) = {PanicLevel, FatalLevel, ErrorLevel}

\* C2: a constructor call returns no hook and an error when the request
\* failed, the body was undecodable or the response had ok = false; it
\* returns a hook and no error only for a response decoded with ok = true;
\* it never returns both.
C2_HookOrError ==
    ctor.state = "done" =>
        /\ ctor.hook <=> ctor.err = Nil
        /\ ctor.hook <=> Succeeded(ctor.resp)
        /\ ctor.resp.kind \in {"request", "decode"} \/ Rejected(ctor.resp) =>
               ~ctor.hook /\ ctor.err # Nil

\* A construction whose getMe body could not be decoded returned no hook.
C2_Witness ==
    /\ ctor.state = "done"
    /\ ctor.resp.kind = "decode"
    /\ ~ctor.hook
    /\ ctor.err # Nil

\* Ascending order of severity: trace lowest, panic highest.
Rank(l) == Len(Severities) - Position(l)

\* C7 as stated: Levels() is all severities from trace up to and including
\* T: S is accepted iff S is at or below T in ascending order of severity.
C7_AcceptedAtOrBelowThreshold ==
    \A c \in LevelsReturned :
        \A S \in LevelValues : S \in Enabled(c) <=> Rank(S) <= Rank(h.level)

\* C7, amended: Levels() is all severities from T up to and including
\* panic: S is accepted iff S is at or above T in ascending order of
\* severity.
C7_AcceptedAtOrAboveThreshold ==
    \A c \in LevelsReturned :
        \A S \in LevelValues : S \in Enabled(c) <=> Rank(S) >= Rank(h.level)

\* Threshold info accepts warn and rejects debug.
C7_Witness ==
    \E c \in LevelsReturned :
        /\ h.level = InfoLevel
        /\ WarnLevel \in Enabled(c)
        /\ DebugLevel \notin Enabled(c)

\* ------------------------------------------------------------------------
\* Specification SpecCfg: threads call the accessors and mutators of the six
\* configuration fields of one hook, MaxCalls calls in all
\* ------------------------------------------------------------------------

NewCfg == NewTelegramHook(svc, "123:abc", "@chat", "", <<>>, Decoded(Accepted))

CallGet == (\E f \in Fields : Call("get", f, NoVal)) /\ Counted
CallSetCounted == (\E f \in Fields : \E v \in Values(f) : Call("set", f, Val(f, v))) /\ Counted
StepGetReturn == \E c \in BagToSet(thr) : GetReturn(c)

\* The mutator returns; history records the value it stored.
StepSetReturnLogged ==
    \E c \in BagToSet(thr) :
        /\ SetReturn(c)
        /\ hist' = [hist EXCEPT !.passed[c.f] = hist.passed[c.f] \cup {c.arg.v[1]}]

NextCfg ==
    \/ NewCfg
    \/ CallGet
    \/ CallSetCounted
    \/ StepRLock
    \/ StepGetReturn
    \/ StepLockPending
    \/ StepLockHeld
    \/ StepSetReturnLogged

SpecCfg == Init /\ [][NextCfg]_vars

\* The number of calls that are at pc.
At(pc) == BagCardinality([c \in {d \in BagToSet(thr) : d.pc = pc} |-> thr[c]])
GetsReturned == {c \in BagToSet(thr) : c.op = "get" /\ c.pc = "returned"}

\* C6: a call writing the configuration (holding the write lock) excludes
\* every other call reading or writing it; every accessor returned the
\* constructed value of its field or a value passed to a mutator of that
\* field; an accessor called after a mutator of its field completed returned
\* a value passed to a mutator of that field.
C6_ReadersWriterAndValues ==
    /\ At("locked") <= 1
    /\ At("locked") = 1 => At("rlocked") = 0
    /\ \A c \in GetsReturned :
        /\ c.ret.v[1] \in {Getter(ctor.made, c.f)} \cup hist.passed[c.f]
        /\ c.seen # {} => c.ret.v[1] \in hist.passed[c.f]

\* An accessor called after a mutator of its field completed returned the
\* value that mutator stored, which is not the constructed one.
C6_Witness ==
    \E c \in GetsReturned :
        /\ c.seen # {}
        /\ c.ret.v[1] \in c.seen
        /\ c.ret.v[1] # Getter(ctor.made, c.f)

\* ------------------------------------------------------------------------
\* Specification SpecFmt: createMessage is called on an event, then again
\* on the same event with the same application name
\* ------------------------------------------------------------------------

FmtAppNames == {svc, <<"a", "&", "b">>}
FmtMessages == {boom, <<"<", "i", ">">>}
FmtData ==
    {<<>>,
     <<"n">> :> IntVal(1),
     <<"h", "t", "m", "l">> :> StrVal(<<"<", "b", ">", "&", "\"", "'">>),
     <<"k">> :> StrVal(<<"x", "\n", "y">>),
     <<"<", "k", ">">> :> StrVal(<<"a", "&", "b">>),
     (<<"a">> :> IntVal(1)) @@ (<<"b">> :> IntVal(2))}

\* h.createMessage(entry), called for the first time.
CallCreateMessage(appName, entry, order) ==
    /\ fmt.out = <<>>
    /\ order \in KeyOrders(entry.Data)
    /\ fmt' = [appName |-> appName, entry |-> entry,
               out |-> <<createMessage(entry, appName, order)>>]
    /\ UNCHANGED <<h, mu, ctor, fire, thr, hist>>

\* h.createMessage(entry), called again on the same entry.
CallCreateMessageAgain(order) ==
    /\ fmt.out # <<>>
    /\ Len(fmt.out) < MaxFormats
    /\ order \in KeyOrders(fmt.entry.Data)
    /\ fmt' = [fmt EXCEPT !.out = Append(fmt.out, createMessage(fmt.entry, fmt.appName, order))]
    /\ UNCHANGED <<h, mu, ctor, fire, thr, hist>>

FmtFirst ==
    \E appName \in FmtAppNames, level \in LevelValues, message \in FmtMessages,
       data \in FmtData :
        \E order \in KeyOrders(data) :
            CallCreateMessage(appName, [Level |-> level, Message |-> message, Data |-> data],
                              order)

FmtAgain == \E order \in KeyOrders(fmt.entry.Data) : CallCreateMessageAgain(order)

NextFmt ==
    \/ FmtFirst
    \/ FmtAgain

SpecFmt == Init /\ [][NextFmt]_vars

\* C8: two calls of createMessage with the same event and the same
\* application name return the same string.
C8_CreateMessageDeterministic ==
    \A i, j \in 1..Len(fmt.out) : fmt.out[i] = fmt.out[j]

\* <label>@<application name> - <message text>
Header(entry, appName) ==
    LevelLabel(entry.Level) \o <<"@">> \o appName \o <<" ", "-", " ">> \o entry.Message

\* What follows the header in out, split into lines.
AfterHeader(out, entry, appName) == Split(Drop(out, Len(Header(entry, appName))))

\* out starts with the header; a block (a line break, <pre>, lines, </pre>)
\* follows iff the entry has a field.
HeaderAndBlock(out, entry, appName) ==
    LET parts == AfterHeader(out, entry, appName)
    IN /\ HasPrefix(out, Header(entry, appName))
       /\ Len(out) > Len(Header(entry, appName)) <=> DOMAIN entry.Data # {}
       /\ DOMAIN entry.Data # {} =>
            /\ Len(parts) >= 3
            /\ parts[1] = <<>>
            /\ parts[2] = PreOpen
            /\ parts[Len(parts)] = PreClose

\* The lines of the block are one line reading "key: value" (after a tab) for
\* each field of the entry, and no other line.
OneLinePerField(out, entry, appName) ==
    LET parts == AfterHeader(out, entry, appName)
        lines == SubSeq(parts, 3, Len(parts) - 1)
    IN DOMAIN entry.Data # {} =>
        /\ Len(lines) = Cardinality(DOMAIN entry.Data)
        /\ \A k \in DOMAIN entry.Data :
             Cardinality({i \in 1..Len(lines) :
                            UnescapeString(lines[i])
                                = <<"\t">> \o k \o <<":", " ">> \o FormatValue(entry.Data[k])}) = 1

\* No key and no rendered value of the entry holds a line break.
NoLineBreaks(entry) ==
    \A k \in DOMAIN entry.Data : LineBreak(k) = 0 /\ LineBreak(FormatValue(entry.Data[k])) = 0

\* C9 as stated: every output starts with the header, has a block iff the
\* event has a field, and the block has exactly one line "key: value" for
\* each field and no other line.
C9_HeaderAndOneLinePerField ==
    \A i \in 1..Len(fmt.out) :
        /\ HeaderAndBlock(fmt.out[i], fmt.entry, fmt.appName)
        /\ OneLinePerField(fmt.out[i], fmt.entry, fmt.appName)

\* C9, amended: every output starts with the header and has a block iff the
\* event has a field; when no key and no rendered value holds a line break,
\* the block has exactly one line for each field, the HTML-escaped
\* "key: value" after a tab, and no other line.
C9_HeaderAndOneLinePerUnbrokenField ==
    \A i \in 1..Len(fmt.out) :
        /\ HeaderAndBlock(fmt.out[i], fmt.entry, fmt.appName)
        /\ NoLineBreaks(fmt.entry) => OneLinePerField(fmt.out[i], fmt.entry, fmt.appName)

\* App "svc", severity error, message "boom", fields {n: 1}: the text holds
\* ERROR, svc, boom and a block with "n: 1".
C9_Witness ==
    /\ fmt.out # <<>>
    /\ fmt.appName = svc
    /\ fmt.entry.Level = ErrorLevel
    /\ fmt.entry.Message = boom
    /\ DOMAIN fmt.entry.Data = {<<"n">>}
    /\ Contains(fmt.out[1], <<"E", "R", "R", "O", "R">>)
    /\ Contains(fmt.out[1], svc)
    /\ Contains(fmt.out[1], boom)
    /\ Contains(fmt.out[1], PreOpen \o <<"\n", "\t", "n", ":", " ", "1", "\n">> \o PreClose)

\* The text of the block between <pre> and </pre>: each field line with the
\* line break before it.
BlockText(out, entry, appName) ==
    SubSeq(out, Len(Header(entry, appName)) + Len(PreOpen) + 2, Len(out) - Len(PreClose) - 1)

\* The unescaped field lines, each after a line break, in the order `order`.
RawFieldLines(entry, order) ==
    Flatten([i \in 1..Len(order) |->
                <<"\n", "\t">> \o order[i] \o <<":", " ">> \o FormatValue(entry.Data[order[i]])])

\* The five character references html.EscapeString writes.
Entities ==
    {<<"&", "a", "m", "p", ";">>, <<"&", "l", "t", ";">>, <<"&", "g", "t", ";">>,
     <<"&", "#", "3", "9", ";">>, <<"&", "#", "3", "4", ";">>}

\* C11: in the block of every output no raw < or > appears and every &
\* begins a character reference, and unescaping the block gives back the
\* original "key: value" lines of the fields.
C11_FieldsEscapedAndRoundTrip ==
    \A i \in 1..Len(fmt.out) :
        DOMAIN fmt.entry.Data # {} =>
            LET b == BlockText(fmt.out[i], fmt.entry, fmt.appName)
            IN /\ \A j \in 1..Len(b) : b[j] \notin {"<", ">"}
               /\ \A j \in 1..Len(b) : b[j] = "&" => \E e \in Entities : HasPrefixAt(b, e, j)
               /\ \E order \in KeyOrders(fmt.entry.Data) :
                    UnescapeString(b) = RawFieldLines(fmt.entry, order)

\* A field {"<k>": "a&b"} was formatted: its line reads &lt;k&gt;: a&amp;b.
C11_Witness ==
    /\ fmt.out # <<>>
    /\ DOMAIN fmt.entry.Data = {<<"<", "k", ">">>}
    /\ Contains(fmt.out[1],
                <<"\t", "&", "l", "t", ";", "k", "&", "g", "t", ";", ":", " ",
                  "a", "&", "a", "m", "p", ";", "b", "\n">>)

\* A label token in bold.
Bold(name) == <<"<", "b", ">">> \o name \o <<"<", "/", "b", ">">>

\* The labels of the severities: trace has none.
ExpectedLabel(level) ==
    CASE level = PanicLevel -> Bold(<<"P", "A", "N", "I", "C">>)
      [] level = FatalLevel -> Bold(<<"F", "A", "T", "A", "L">>)
      [] level = ErrorLevel -> Bold(<<"E", "R", "R", "O", "R">>)
      [] level = WarnLevel -> Bold(<<"W", "A", "R", "N", "I", "N", "G">>)
      [] level = InfoLevel -> Bold(<<"I", "N", "F", "O">>)
      [] level = DebugLevel -> Bold(<<"D", "E", "B", "U", "G">>)
      [] level = TraceLevel -> <<>>

\* C19: every output starts with the bold label of the event's severity
\* (PANIC, FATAL, ERROR, WARNING, INFO, DEBUG; none for trace) followed by
\* "@" and the application name, so the text of a trace event, which a hook
\* with threshold trace is enabled for, starts with "@<application name>".
C19_LabelOfEverySeverity ==
    /\ \A l \in LevelValues : LevelLabel(l) = ExpectedLabel(l)
    /\ TraceLevel \in {Levels([ZeroHook EXCEPT !.level = TraceLevel])[i] : i \in 1..(TraceLevel + 1)}
    /\ \A i \in 1..Len(fmt.out) :
        /\ HasPrefix(fmt.out[i], ExpectedLabel(fmt.entry.Level) \o <<"@">> \o fmt.appName)
        /\ fmt.entry.Level = TraceLevel => HasPrefix(fmt.out[i], <<"@">> \o fmt.appName)

\* A trace event was formatted for "svc": the text starts with "@svc".
C19_Witness ==
    /\ fmt.out # <<>>
    /\ fmt.entry.Level = TraceLevel
    /\ fmt.appName = svc
    /\ HasPrefix(fmt.out[1], <<"@", "s", "v", "c", " ", "-", " ">>)

\* ------------------------------------------------------------------------
\* Specification SpecOps: every operation of the hook, MaxOps calls in all,
\* from concurrent threads.  In SpecOpsLive every step of the program is
\* taken eventually; the remote endpoint need not answer.
\* ------------------------------------------------------------------------

NewOps ==
    \E authToken \in Values("authToken"), x \in Exchanges,
       options \in {<<>>, <<WithTimeout(5), WithAsync(TRUE)>>} :
        NewTelegramHookWithClient(svc, authToken, "@chat", "", 3, options, x)

\* Fewer than MaxOps calls have been made.
OpsLeft == BagCardinality(fire) + hist.calls < MaxOps

OpsFire == OpsLeft /\ CallFire
OpsGet == OpsLeft /\ CallGet
OpsSet == OpsLeft /\ CallSetCounted
OpsLevels == OpsLeft /\ CallLevels

\* The mutator returns; history records the value it stored as the last one
\* of its field.
StepSetReturnLast ==
    \E c \in BagToSet(thr) :
        /\ SetReturn(c)
        /\ hist' = [hist EXCEPT !.passed[c.f] = hist.passed[c.f] \cup {c.arg.v[1]},
                                !.last[c.f] = c.arg]

NextOps ==
    \/ NewOps
    \/ OpsFire
    \/ OpsGet
    \/ OpsSet
    \/ OpsLevels
    \/ StepFireRLock
    \/ StepFireCreateMessage
    \/ StepFireAsync
    \/ StepSendChatId
    \/ StepSendThreadId
    \/ StepSendPost
    \/ StepSendResponse
    \/ StepRLock
    \/ StepGetReturn
    \/ StepLevelsReturn
    \/ StepLockPending
    \/ StepLockHeld
    \/ StepSetReturnLast

SpecOps == Init /\ [][NextOps]_vars

\* The scheduler runs every thread and goroutine that can take a step; the
\* answer of the remote endpoint (StepSendResponse) may never come.
FairOps ==
    /\ WF_vars(StepFireRLock)
    /\ WF_vars(StepFireCreateMessage)
    /\ WF_vars(StepFireAsync)
    /\ WF_vars(StepSendChatId)
    /\ WF_vars(StepSendThreadId)
    /\ WF_vars(StepSendPost)
    /\ WF_vars(StepRLock)
    /\ WF_vars(StepGetReturn)
    /\ WF_vars(StepLevelsReturn)
    /\ WF_vars(StepLockPending)
    /\ WF_vars(StepLockHeld)
    /\ WF_vars(StepSetReturnLast)

SpecOpsLive == SpecOps /\ FairOps

\* C13: before the constructor returns no getMe request has been issued and
\* no operation has begun; once it has returned exactly one getMe request
\* has been issued, with the options applied (the client's timeout and the
\* URL are those of the hook as configured), and no Fire, Levels, accessor
\* or mutator call issues another.
C13_OneValidationAtConstruction ==
    /\ ctor.state = "new" => ctor.getMe = 0 /\ fire = EmptyBag /\ thr = EmptyBag
    /\ ctor.state = "done" =>
        /\ ctor.getMe = 1
        /\ ctor.req.timeout = ctor.made.timeout
        /\ ctor.req.url = <<"https://api.telegram.org/bot", ctor.made.authToken, "/", "getMe">>

\* A hook constructed with WithTimeout(5) went through a Fire and another
\* call: still one getMe request, issued with the timeout 5.
C13_Witness ==
    /\ ctor.hook
    /\ ctor.getMe = 1
    /\ ctor.req.timeout = 5
    /\ \E c \in FireCalls : c.pc = "done"
    /\ hist.calls >= 1
    /\ \A c \in BagToSet(thr) : c.pc = "returned"

\* The accessor, mutator and Levels calls in progress, and those returned.
Busy == At("call") + At("rlocked") + At("pending") + At("locked")
CallsReturned == hist.calls - Busy

\* The Fire calls holding the read lock.
FireHolders == BagCardinality([c \in {d \in BagToSet(fire) : d.lk} |-> fire[c]])

\* C16: a Fire call whose request is in flight or answered does not hold the
\* lock; every holder holds the lock once (the read locks held are as many
\* as the calls holding one, a writer holds it alone); and every accessor,
\* mutator and Levels call made eventually returns, whether or not the
\* remote endpoint ever answers.
C16_LockScopeAndProgress ==
    /\ [](\A c \in FireCalls : c.pc \in {"Post", "done"} => ~c.lk)
    /\ [](mu.r = FireHolders + At("rlocked"))
    /\ [](mu.w = "held" => mu.r = 0 /\ At("locked") = 1)
    /\ \A k \in 1..MaxOps : (hist.calls >= k) ~> (CallsReturned >= k)

\* A mutator has returned while the request of a Fire call is in flight.
C16_Witness ==
    /\ \E c \in FireCalls : c.pc = "Post"
    /\ \E f \in Fields : hist.last[f] # NoVal
    /\ Busy = 0

\* The value the accessor of f is to return: the one the last completed
\* mutator call of f stored, the constructed one if there was none.
Current(f) == IF hist.last[f] = NoVal THEN Val(f, Getter(ctor.made, f)) ELSE hist.last[f]

\* C18: the step in which a mutator call returns stores its argument,
\* whatever it is, in its own field, leaves the other fields alone and
\* issues no request; the step in which an accessor call returns gives the
\* value of the last completed mutator call of its field; the answer to a
\* send issued with a credential the remote endpoint rejects makes that
\* send fail.
C18_MutatorsStoreOwnFieldOnly ==
    [][/\ \A c \in BagToSet(thr) :
             c.pc = "locked" /\ CopiesIn(c, thr') < CopiesIn(c, thr) =>
                /\ \A g \in Fields : h'[g] = IF g = c.f THEN c.arg.v[1] ELSE h[g]
                /\ h'.timeout = h.timeout
                /\ ctor' = ctor
                /\ fire' = fire
       /\ \A d \in BagToSet(thr') :
             d.op = "get" /\ d.pc = "returned" /\ CopiesIn(d, thr') > CopiesIn(d, thr) =>
                d.ret = Current(d.f)
       /\ \A c \in BagToSet(fire) :
             c.pc = "Post" /\ c.req.url[2] \notin ValidTokens
                 /\ CopiesIn(c, fire') < CopiesIn(c, fire) =>
                \A d \in BagToSet(fire') :
                    d.pc = "done" /\ CopiesIn(d, fire') > CopiesIn(d, fire) => d.err # Nil]_vars

\* SetAuthToken("") has returned and a send has been issued with the empty
\* credential.
C18_Witness ==
    /\ hist.last["authToken"] = Val("authToken", "")
    /\ h.authToken = ""
    /\ \E c \in FireCalls : c.pc = "Post" /\ c.req.url[2] = ""

\* ------------------------------------------------------------------------
\* Specification SpecDest: Fire is called while a thread changes the
\* destination (SetChatId, SetThreadId), MaxCalls calls in all
\* ------------------------------------------------------------------------

DestFields == {"chatId", "threadId"}

NewDest ==
    \E options \in {<<>>, <<WithAsync(TRUE)>>} :
        NewTelegramHook(svc, "123:abc", "@chat", "", options, Decoded(Accepted))

\* Fewer than MaxCalls calls have been made.
DestLeft == BagCardinality(fire) + hist.calls < MaxCalls

DestFire == DestLeft /\ CallFire

\* One thread changes the destination, one mutator call after the other.
DestSet ==
    /\ DestLeft
    /\ thr = EmptyBag
    /\ \E f \in DestFields : \E v \in Values(f) : Call("set", f, Val(f, v))
    /\ Counted

\* The mutator returns; history records the destination now configured.
StepSetReturnConfig ==
    \E c \in BagToSet(thr) :
        /\ SetReturn(c)
        /\ hist' = [hist EXCEPT !.configs = Append(hist.configs, <<h'.chatId, h'.threadId>>)]

NextDest ==
    \/ NewDest
    \/ DestFire
    \/ DestSet
    \/ StepFireRLock
    \/ StepFireCreateMessage
    \/ StepFireAsync
    \/ StepSendChatId
    \/ StepSendThreadId
    \/ StepSendPost
    \/ StepSendResponse
    \/ StepLockPending
    \/ StepLockHeld
    \/ StepSetReturnConfig

SpecDest == Init /\ [][NextDest]_vars

\* The i-th destination configured: the constructed one, then one for each
\* mutator call completed.
ConfigAt(i) ==
    IF i = 0 THEN <<ctor.made.chatId, ctor.made.threadId>> ELSE hist.configs[i]

\* C17: the chat_id and message_thread_id of every request issued were
\* together the configured destination at some instant between the start of
\* the Fire call and the send.
C17_EnvelopeFromOneConfiguration ==
    \A c \in FireCalls :
        c.pc = "Post" =>
            \E i \in c.from..Len(hist.configs) :
                ConfigAt(i) = <<c.req.ChatId, c.req.ThreadId>>

\* ------------------------------------------------------------------------
\* Specification SpecOrder: on a hook in asynchronous mode Fire is called
\* for event A, then for event B
\* ------------------------------------------------------------------------

MsgA == <<"A">>
MsgB == <<"B">>
EntryOf(message) == [Level |-> ErrorLevel, Message |-> message, Data |-> <<>>]

NewOrder ==
    NewTelegramHook(svc, "123:abc", "@chat", "", <<WithAsync(TRUE)>>, Decoded(Accepted))

OrderFireA == fire = EmptyBag /\ Fire(EntryOf(MsgA))

\* B is fired once A has been: after A returned, or from another thread
\* while A runs.
OrderFireB ==
    /\ BagCardinality(fire) = 1
    /\ \A c \in BagToSet(fire) : c.entry.Message = MsgA
    /\ Fire(EntryOf(MsgB))

\* The request is posted; history records that it reached the remote
\* endpoint after the ones before it.
StepSendPostLogged ==
    \E c \in BagToSet(fire) :
        /\ SendPost(c)
        /\ hist' = [hist EXCEPT !.arrivals = Append(hist.arrivals, c.entry.Message)]

NextOrder ==
    \/ NewOrder
    \/ OrderFireA
    \/ OrderFireB
    \/ StepFireRLock
    \/ StepFireCreateMessage
    \/ StepFireAsync
    \/ StepSendChatId
    \/ StepSendThreadId
    \/ StepSendPostLogged
    \/ StepSendResponse

SpecOrder == Init /\ [][NextOrder]_vars

\* The next step of the Fire call c and of the send it detached.
StepOf(c) ==
    \/ FireRLock(c)
    \/ \E order \in KeyOrders(c.entry.Data) : FireCreateMessage(c, order)
    \/ FireAsync(c)
    \/ SendChatId(c)
    \/ SendThreadId(c)
    \/ SendPost(c) /\ hist' = [hist EXCEPT !.arrivals = Append(hist.arrivals, c.entry.Message)]
    \/ \E x \in SendExchanges : SendResponse(c, x)

\* C20: nothing orders the sends of two Fire calls: whatever the other call
\* has or has not done, a call that is not finished can take its next step
\* (so either request can be the first to reach the remote endpoint), and a
\* request in flight can be answered with success and with failure.
C20_NoOrderBetweenSends ==
    \A c \in FireCalls :
        /\ c.pc # "done" => ENABLED StepOf(c)
        /\ c.pc = "Post" =>
            /\ ENABLED SendResponse(c, Decoded(Accepted))
            /\ ENABLED SendResponse(c, RequestFailed(Timeout))

\* A was fired first; the request of B reached the remote endpoint first and
\* succeeded, the send of A failed; both Fire calls returned nil.
C20_Witness ==
    /\ hist.arrivals = <<MsgB, MsgA>>
    /\ \E a, b \in FireCalls :
        /\ a.entry.Message = MsgA /\ b.entry.Message = MsgB
        /\ a.mode = "async" /\ b.mode = "async"
        /\ a.pc = "done" /\ ~Succeeded(a.resp)
        /\ b.pc = "done" /\ Succeeded(b.resp)
        /\ a.ret = Nil /\ b.ret = Nil

====
